---- MODULE Spec2Model ----
(***************************************************************************)
(* Model of the FORTRAN-format fixed-column reader of MDAnalysis.core.util *)
(* (FORTRAN_format_regex, FixedcolumnEntry, FORTRANReader).                *)
(*                                                                         *)
(* Python strings are sequences of one-character strings; a Python None is *)
(* the empty tuple <<>> and a present value v is the one-element tuple     *)
(* <<v>>.  An exception is a record naming the exception class.  A local   *)
(* variable of the code that is read several times is the parameter of an  *)
(* operator that holds the rest of the function.                           *)
(***************************************************************************)
EXTENDS Integers, Sequences, FiniteSets, TLC

VARIABLES status, fmtArg, fmt, entries, error, op, line, result, attempted,
          raised

vars == <<status, fmtArg, fmt, entries, error, op, line, result, attempted,
          raised>>

(***************************************************************************)
(* Bounds of the model.                                                    *)
(***************************************************************************)
\* number of comma-separated tokens of a format string given to __init__
MaxTokens == 3
\* length of a text line given to read / number_of_matches
MaxLineLen == 3

(***************************************************************************)
(* Characters.                                                             *)
(***************************************************************************)
DigitChars == {"0", "1", "2", "3", "4", "5", "6", "7", "8", "9"}

DigitVal(c) ==
  CASE c = "0" -> 0 [] c = "1" -> 1 [] c = "2" -> 2 [] c = "3" -> 3
    [] c = "4" -> 4 [] c = "5" -> 5 [] c = "6" -> 6 [] c = "7" -> 7
    [] c = "8" -> 8 [] c = "9" -> 9

\* str.upper() on one character (the letters the inputs use)
UpperChar(c) ==
  CASE c = "i" -> "I" [] c = "f" -> "F" [] c = "e" -> "E" [] c = "a" -> "A"
    [] c = "x" -> "X" [] c = "z" -> "Z" [] c = "q" -> "Q"
    [] OTHER -> c

upper(s) == [i \in 1..Len(s) |-> UpperChar(s[i])]

\* int() of a string of decimal digits
RECURSIVE DigitsToInt(_)
DigitsToInt(s) ==
  IF Len(s) = 0 THEN 0
  ELSE 10 * DigitsToInt(SubSeq(s, 1, Len(s) - 1)) + DigitVal(s[Len(s)])

\* \d+ (greedy): the length of the longest run of digits of s from position i
RECURSIVE DigitRun(_, _)
DigitRun(s, i) ==
  IF i <= Len(s) /\ s[i] \in DigitChars THEN 1 + DigitRun(s, i + 1) ELSE 0

(***************************************************************************)
(* str.split(',') and ','.join(list)                                       *)
(***************************************************************************)
\* the position of the first "," of s from position i, or 0
RECURSIVE FindComma(_, _)
FindComma(s, i) ==
  IF i > Len(s) THEN 0
  ELSE IF s[i] = "," THEN i ELSE FindComma(s, i + 1)

RECURSIVE split(_)
SplitAt(s, k) ==
  IF k = 0 THEN <<s>>
  ELSE <<SubSeq(s, 1, k - 1)>> \o split(SubSeq(s, k + 1, Len(s)))

split(s) == SplitAt(s, FindComma(s, 1))

\* a join that leaves the commas out
RECURSIVE joinNoSeparator(_)
joinNoSeparator(l) ==
  IF Len(l) = 0 THEN <<>>
  ELSE l[1] \o joinNoSeparator(Tail(l))

RECURSIVE join(_)
join(l) ==
  IF Len(l) = 0 THEN <<>>
  ELSE IF Len(l) = 1 THEN l[1]
  ELSE l[1] \o <<",">> \o join(Tail(l))

(***************************************************************************)
(* FORTRAN_format_regex, matched with re.match (anchored at the start of   *)
(* the string only):                                                       *)
(*   (?P<repeat>\d+?)(?P<format>[IFEAX])                                   *)
(*   (?P<numfmt>(?P<length>\d+)(\.(?P<decimals>\d+))?)?                    *)
(***************************************************************************)
FormatCodes == {"I", "F", "E", "A", "X"}

\* (?P<repeat>\d+?)(?P<format>[IFEAX]) : the lazy run takes the digit at k
\* and extends only while no code follows; the position of the last digit of
\* repeat, or 0 when the pattern does not match
RECURSIVE LazyDigits(_, _)
LazyDigits(s, k) ==
  IF k > Len(s) \/ s[k] \notin DigitChars THEN 0
  ELSE IF k + 1 <= Len(s) /\ s[k + 1] \in FormatCodes THEN k
  ELSE LazyDigits(s, k + 1)

\* groupdict() of the match with repeat = s[1..k], length the n digits after
\* the code and decimals the m digits after the point
GroupDict(s, k, n, m) ==
  [repeat   |-> SubSeq(s, 1, k),
   format   |-> s[k + 1],
   length   |-> IF n > 0 THEN <<SubSeq(s, k + 2, k + 1 + n)>> ELSE <<>>,
   decimals |-> IF m > 0 THEN <<SubSeq(s, k + n + 3, k + n + 2 + m)>>
                ELSE <<>>]

\* (\.(?P<decimals>\d+))? after a length of n digits
MatchDecimals(s, k, n) ==
  GroupDict(s, k, n,
            IF n > 0 /\ k + n + 2 <= Len(s) /\ s[k + n + 2] = "."
            THEN DigitRun(s, k + n + 3) ELSE 0)

\* (?P<numfmt>(?P<length>\d+)...)? after the code at k + 1
MatchNumfmt(s, k) ==
  IF k = 0 THEN <<>> ELSE <<MatchDecimals(s, k, DigitRun(s, k + 2))>>

\* _FORTRAN_format_pattern.match(s): <<groupdict()>> of the match, or <<>>
\* for None
FORTRAN_format_pattern_match(s) == MatchNumfmt(s, LazyDigits(s, 1))

(***************************************************************************)
(* FORTRANReader.parse_FORTRAN_format                                      *)
(***************************************************************************)
NoError == [exc |-> "none", token |-> <<>>]

\* int(d[k]) in the loop over ('repeat','length','decimals'): a string of
\* digits becomes its value, '' becomes 0, None stays None
IntOrKeep(g) ==
  IF g = <<>> THEN <<>>
  ELSE IF Len(g[1]) = 0 THEN <<0>> ELSE <<DigitsToInt(g[1])>>

\* d['totallength'] = d['repeat'] * d['length'] and return d; the product
\* raises TypeError when length is None
Descriptor(edit_descriptor, g, repeat, length) ==
  IF length = <<>>
  THEN [exc |-> "TypeError", token |-> edit_descriptor, d |-> <<>>]
  ELSE [exc |-> "none", token |-> edit_descriptor,
        d |-> <<[repeat      |-> repeat,
                 format      |-> g.format,
                 length      |-> length[1],
                 decimals    |-> IntOrKeep(g.decimals),
                 totallength |-> repeat * length[1]]>>]

\* a parse that keeps the width written after X
ParseGroupsKeepsSkipWidth(edit_descriptor, g) ==
  Descriptor(edit_descriptor, g,
             IF Len(g.repeat) = 0 THEN 1 ELSE DigitsToInt(g.repeat),
             IntOrKeep(g.length))

\* d = m.groupdict(), the default repeat, the width 1 of X and the
\* conversion of the numbers
ParseGroups(edit_descriptor, g) ==
  Descriptor(edit_descriptor, g,
             IF Len(g.repeat) = 0 THEN 1 ELSE DigitsToInt(g.repeat),
             IF g.format = "X" THEN <<1>> ELSE IntOrKeep(g.length))

\* m.groupdict(), which raises AttributeError when m is None
ParseMatch(edit_descriptor, m) ==
  IF m = <<>>
  THEN [exc |-> "AttributeError", token |-> edit_descriptor, d |-> <<>>]
  ELSE ParseGroups(edit_descriptor, m[1])

\* "if m is None": the retry with "1" before the token; match does not
\* raise, so the except clause with its ValueError never runs
MatchRetry(u, m) ==
  IF m = <<>> THEN FORTRAN_format_pattern_match(<<"1">> \o u) ELSE m

MatchOrRetry(u) == MatchRetry(u, FORTRAN_format_pattern_match(u))

parse_FORTRAN_format(edit_descriptor) ==
  ParseMatch(edit_descriptor, MatchOrRetry(upper(edit_descriptor)))

(***************************************************************************)
(* FixedcolumnEntry                                                        *)
(***************************************************************************)
FixedcolumnEntry(start, stop, typespecifier) ==
  [start |-> start, stop |-> stop, typespecifier |-> typespecifier]

(***************************************************************************)
(* FORTRANReader.__init__                                                  *)
(***************************************************************************)
\* an inner loop that does not move start on
RECURSIVE RepeatEntriesNoAdvance(_, _, _)
RepeatEntriesNoAdvance(d, start, n) ==
  IF n <= 0 THEN <<>>
  ELSE <<FixedcolumnEntry(start, start + d.length, d.format)>>
         \o RepeatEntriesNoAdvance(d, start, n - 1)

\* the inner loop "for x in range(d['repeat'])": the entries of one
\* descriptor, laid out from column start
RECURSIVE RepeatEntries(_, _, _)
RepeatEntries(d, start, n) ==
  IF n <= 0 THEN <<>>
  ELSE <<FixedcolumnEntry(start, start + d.length, d.format)>>
         \o RepeatEntries(d, start + d.length, n - 1)

\* an outer loop that gives X descriptors entries like the others
RECURSIVE BuildEntriesSkipEmits(_, _, _)
BuildEntriesSkipEmits(descriptors, i, start) ==
  IF i > Len(descriptors) THEN <<>>
  ELSE RepeatEntries(descriptors[i], start, descriptors[i].repeat)
       \o BuildEntriesSkipEmits(descriptors, i + 1,
                                start + descriptors[i].repeat
                                        * descriptors[i].length)

\* the outer loop "for d in descriptors", from descriptor i and column start
RECURSIVE BuildEntries(_, _, _)
BuildEntries(descriptors, i, start) ==
  IF i > Len(descriptors) THEN <<>>
  ELSE IF descriptors[i].format # "X"
  THEN RepeatEntries(descriptors[i], start, descriptors[i].repeat)
       \o BuildEntries(descriptors, i + 1,
                       start + descriptors[i].repeat * descriptors[i].length)
  ELSE BuildEntries(descriptors, i + 1, start + descriptors[i].totallength)

\* the first descriptor from i on whose parse raised, or 0
RECURSIVE FirstRaise(_, _)
FirstRaise(parsed, i) ==
  IF i > Len(parsed) THEN 0
  ELSE IF parsed[i].exc # "none" THEN i ELSE FirstRaise(parsed, i + 1)

\* the list comprehension of the descriptors stops at the first parse that
\* raises, at b; otherwise the entries are built
InitEntries(toks, parsed, b) ==
  IF b # 0
  THEN [exc |-> parsed[b].exc, token |-> toks[b],
        fmt |-> <<>>, entries |-> <<>>]
  ELSE [exc |-> "none", token |-> <<>>, fmt |-> toks,
        entries |-> BuildEntries([i \in 1..Len(toks) |-> parsed[i].d[1]],
                                 1, 0)]

InitParsed(toks, parsed) == InitEntries(toks, parsed, FirstRaise(parsed, 1))

InitTokens(toks) ==
  InitParsed(toks, [i \in 1..Len(toks) |-> parse_FORTRAN_format(toks[i])])

\* The constructor's outcome: the new object's fmt and entries, or the
\* exception of the first token whose parse raises.
FORTRANReader_init(f) == InitTokens(split(f))

\* FORTRANReader.__len__
FORTRANReader_len(es) == Len(es)

\* FORTRANReader.__repr__ : self.__class__.__name__+"("+",".join(self.fmt)+")"
ClassName == <<"F", "O", "R", "T", "R", "A", "N", "R", "e", "a", "d", "e", "r">>

FORTRANReader_repr(l) == ClassName \o <<"(">> \o join(l) \o <<")">>

(***************************************************************************)
(* The convertors of FixedcolumnEntry: int, float and strip, on the text   *)
(* of a line.  A converted value is tagged with its Python type; a float   *)
(* is num / 10^exp.                                                        *)
(***************************************************************************)
\* the characters of the text lines
LineChars == {" ", "1", ".", "x"}

\* line[start:stop] for 0 <= start <= stop
Slice(l, start, stop) ==
  IF start + 1 > Len(l) \/ start >= stop THEN <<>>
  ELSE SubSeq(l, start + 1, IF stop < Len(l) THEN stop ELSE Len(l))

\* str.strip() : leading and trailing white space removed
RECURSIVE lstrip(_)
lstrip(s) == IF Len(s) > 0 /\ s[1] = " " THEN lstrip(Tail(s)) ELSE s

RECURSIVE rstrip(_)
rstrip(s) ==
  IF Len(s) > 0 /\ s[Len(s)] = " "
  THEN rstrip(SubSeq(s, 1, Len(s) - 1)) ELSE s

strip(s) == rstrip(lstrip(s))

IntValue(n)      == [type |-> "int", num |-> n, exp |-> 0, str |-> <<>>]
FloatValue(n, e) == [type |-> "float", num |-> n, exp |-> e, str |-> <<>>]
StrValue(t)      == [type |-> "str", num |-> 0, exp |-> 0, str |-> t]
NoValue          == [type |-> "none", num |-> 0, exp |-> 0, str |-> <<>>]

\* the number is a non-empty run of digits
IntOfStripped(t) ==
  IF Len(t) > 0 /\ \A i \in 1..Len(t) : t[i] \in DigitChars
  THEN [exc |-> "none", value |-> IntValue(DigitsToInt(t))]
  ELSE [exc |-> "ValueError", value |-> NoValue]

\* int(s): white space around the number is ignored
int(s) == IntOfStripped(strip(s))

\* the position of the first "." of t from position i, or Len(t) + 1
RECURSIVE FindPoint(_, _)
FindPoint(t, i) ==
  IF i > Len(t) THEN Len(t) + 1
  ELSE IF t[i] = "." THEN i ELSE FindPoint(t, i + 1)

\* the number is digits with at most one decimal point, at p, and at least
\* one digit
FloatOfParts(t, p) ==
  IF /\ \A i \in 1..Len(t) : i # p => t[i] \in DigitChars
     /\ \E i \in 1..Len(t) : i # p
  THEN [exc   |-> "none",
        value |-> FloatValue(DigitsToInt(SubSeq(t, 1, p - 1)
                                         \o SubSeq(t, p + 1, Len(t))),
                             IF p > Len(t) THEN 0 ELSE Len(t) - p)]
  ELSE [exc |-> "ValueError", value |-> NoValue]

FloatOfStripped(t) == FloatOfParts(t, FindPoint(t, 1))

\* float(s): white space around the number is ignored
float(s) == FloatOfStripped(strip(s))

\* the module's strip(s): str(s).strip(), which never raises
strip_convertor(s) == [exc |-> "none", value |-> StrValue(strip(s))]

\* FixedcolumnEntry.convertors = {'I': int, 'F': float, 'E': float, 'A': strip}
convertor(typespecifier, s) ==
  CASE typespecifier = "I" -> int(s)
    [] typespecifier = "F" -> float(s)
    [] typespecifier = "E" -> float(s)
    [] typespecifier = "A" -> strip_convertor(s)

NoEntryError == [exc |-> "none", entry |-> FixedcolumnEntry(0, 0, "A"),
                 raw |-> <<>>]

\* the try of FixedcolumnEntry.read: the converted value c, or the
\* ValueError whose arguments are the entry and the raw slice
ReadConverted(e, raw, c) ==
  IF c.exc = "none"
  THEN [exc |-> "none", value |-> c.value, error |-> NoEntryError]
  ELSE [exc |-> "ValueError", value |-> NoValue,
        error |-> [exc |-> "ValueError", entry |-> e, raw |-> raw]]

ReadSlice(e, raw) == ReadConverted(e, raw, convertor(e.typespecifier, raw))

\* FixedcolumnEntry.read
FixedcolumnEntry_read(e, l) == ReadSlice(e, Slice(l, e.start, e.stop))

(***************************************************************************)
(* FORTRANReader.read and FORTRANReader.number_of_matches                  *)
(***************************************************************************)
\* a read that skips the entries that fail instead of raising
RECURSIVE ReadLoopSkipsBad(_, _, _, _)
ReadLoopSkipsBad(es, l, i, acc) ==
  IF i > Len(es)
  THEN [kind |-> "return", value |-> acc, error |-> NoEntryError,
        attempted |-> Len(es)]
  ELSE ReadLoopSkipsBad(es, l, i + 1,
                        IF FixedcolumnEntry_read(es[i], l).exc # "none"
                        THEN acc
                        ELSE Append(acc, FixedcolumnEntry_read(es[i], l).value))

\* [e.read(line) for e in self.entries], from entry i with the values acc
\* collected so far; attempted counts the calls of e.read.  r is what
\* e.read returned or raised for entry i.
RECURSIVE ReadLoop(_, _, _, _)
ReadStep(es, l, i, acc, r) ==
  IF r.exc # "none"
  THEN [kind |-> "raise", value |-> <<>>, error |-> r.error,
        attempted |-> i]
  ELSE ReadLoop(es, l, i + 1, Append(acc, r.value))

ReadLoop(es, l, i, acc) ==
  IF i > Len(es)
  THEN [kind |-> "return", value |-> acc, error |-> NoEntryError,
        attempted |-> Len(es)]
  ELSE ReadStep(es, l, i, acc, FixedcolumnEntry_read(es[i], l))

FORTRANReader_read(es, l) == ReadLoop(es, l, 1, <<>>)

\* a loop without the try: the first failure ends it
RECURSIVE MatchLoopNoCatch(_, _, _, _)
MatchLoopNoCatch(es, l, i, matches) ==
  IF i > Len(es)
  THEN [kind |-> "return", value |-> matches, error |-> NoEntryError,
        attempted |-> Len(es)]
  ELSE IF FixedcolumnEntry_read(es[i], l).exc # "none"
  THEN [kind |-> "raise", value |-> matches,
        error |-> FixedcolumnEntry_read(es[i], l).error, attempted |-> i]
  ELSE MatchLoopNoCatch(es, l, i + 1, matches + 1)

\* the loop of number_of_matches from entry i with the count so far
RECURSIVE MatchLoop(_, _, _, _)
MatchLoop(es, l, i, matches) ==
  IF i > Len(es)
  THEN [kind |-> "return", value |-> matches, error |-> NoEntryError,
        attempted |-> Len(es)]
  ELSE MatchLoop(es, l, i + 1,
                 IF FixedcolumnEntry_read(es[i], l).exc = "none"
                 THEN matches + 1 ELSE matches)

FORTRANReader_number_of_matches(es, l) == MatchLoop(es, l, 1, 0)

(***************************************************************************)
(* Inputs.                                                                 *)
(***************************************************************************)
\* sequences over S of length lo..hi
SeqsOf(S, lo, hi) == UNION {[1..n -> S] : n \in lo..hi}

\* the comma-separated tokens the format strings are made of
Tokens ==
  { <<"2", "I", "1", "0">>,                 \* 2I10
    <<"2", "X">>,                           \* 2X
    <<"A", "8">>,                           \* A8
    <<"i", "2">>,                           \* i2
    <<"F", "4", ".", "1">>,                 \* F4.1
    <<"1", "2", "E", "1">>,                 \* 12E1
    <<"0", "I", "2">>,                      \* 0I2
    <<"I", "0">>,                           \* I0
    <<"3", "X", "5">>,                      \* 3X5
    <<"X">>,                                \* X
    <<"I">>,                                \* I
    <<"2", "A">>,                           \* 2A
    <<"2", "Z", "1", "0">>,                 \* 2Z10
    <<"2", "I", "1", "0", "Q">>,            \* 2I10Q
    <<"A", "8", ".", "2", ".", "7">>,       \* A8.2.7
    <<>> }                                  \* the empty token

\* the format string whose tokens are ts
RECURSIVE FormatOf(_)
FormatOf(ts) ==
  IF Len(ts) = 1 THEN ts[1]
  ELSE ts[1] \o <<",">> \o FormatOf(Tail(ts))

FormatStrings == {FormatOf(ts) : ts \in SeqsOf(Tokens, 1, MaxTokens)}

\* the format strings of the readers that read lines: layouts of one to
\* three fields over the first columns of a line
ReadFormatStrings ==
  { <<"I", "2">>,                                        \* I2
    <<"3", "I", "1">>,                                   \* 3I1
    <<"I", "1", ",", "A", "2">>,                         \* I1,A2
    <<"F", "3">>,                                        \* F3
    <<"a", "2", ",", "e", "2">>,                         \* a2,e2
    <<"I", "1", ",", "X", ",", "I", "1">>,               \* I1,X,I1
    <<"I", "1", ",", "I", "2", ",", "I", "1">>,          \* I1,I2,I1
    <<"I", "1", ",", "F", "2", ",", "A", "1">>,          \* I1,F2,A1
    <<"2", "I", "1", ",", "I", "0">> }                   \* 2I1,I0

Lines == SeqsOf(LineChars, 0, MaxLineLen)

(***************************************************************************)
(* The state machine: one reader object, constructed once, then used.      *)
(* op, line, result and attempted are the latest call of a method, its     *)
(* argument, its outcome and the number of calls of FixedcolumnEntry.read  *)
(* it made; raised records that some read has raised.                      *)
(***************************************************************************)
NoResult == [kind |-> "none", value |-> <<>>, error |-> NoEntryError]

Init ==
  /\ status = "new"
  /\ fmtArg = <<>>
  /\ fmt = <<>>
  /\ entries = <<>>
  /\ error = NoError
  /\ op = "none"
  /\ line = <<>>
  /\ result = NoResult
  /\ attempted = 0
  /\ raised = FALSE

\* the object, or the exception, that the constructor's outcome r leaves
Constructed(f, r) ==
  /\ status' = IF r.exc = "none" THEN "ready" ELSE "failed"
  /\ fmt' = r.fmt
  /\ entries' = r.entries
  /\ error' = [exc |-> r.exc, token |-> r.token]
  /\ fmtArg' = f
  /\ UNCHANGED <<op, line, result, attempted, raised>>

\* reader = FORTRANReader(f)
Construct(f) ==
  /\ status = "new"
  /\ Constructed(f, FORTRANReader_init(f))

\* len(reader)
LenCall ==
  /\ status = "ready"
  /\ op' = "len"
  /\ result' = [kind |-> "return", value |-> FORTRANReader_len(entries),
                error |-> NoEntryError]
  /\ UNCHANGED <<status, fmtArg, fmt, entries, error, line, attempted, raised>>

\* repr(reader)
ReprCall ==
  /\ status = "ready"
  /\ op' = "repr"
  /\ result' = [kind |-> "return", value |-> FORTRANReader_repr(fmt),
                error |-> NoEntryError]
  /\ UNCHANGED <<status, fmtArg, fmt, entries, error, line, attempted, raised>>

\* the outcome r of a call of method m on line l
Called(m, l, r) ==
  /\ op' = m
  /\ line' = l
  /\ result' = [kind |-> r.kind, value |-> r.value, error |-> r.error]
  /\ attempted' = r.attempted
  /\ raised' = (raised \/ (m = "read" /\ r.kind = "raise"))

\* a read that drops the first entry once it has converted it
ReadConsuming(l) ==
  /\ status = "ready"
  /\ Called("read", l, FORTRANReader_read(entries, l))
  /\ entries' = IF attempted' > 1 THEN Tail(entries) ELSE entries
  /\ UNCHANGED <<status, fmtArg, fmt, error>>

\* reader.read(l)
Read(l) ==
  /\ status = "ready"
  /\ Called("read", l, FORTRANReader_read(entries, l))
  /\ UNCHANGED <<status, fmtArg, fmt, entries, error>>

\* reader.number_of_matches(l)
NumberOfMatches(l) ==
  /\ status = "ready"
  /\ Called("number_of_matches", l,
            FORTRANReader_number_of_matches(entries, l))
  /\ UNCHANGED <<status, fmtArg, fmt, entries, error>>

\* compiling a format string and asking the reader about its layout
Next ==
  \/ status = "new" /\ \E f \in FormatStrings : Construct(f)
  \/ LenCall
  \/ ReprCall

Spec == Init /\ [][Next]_vars

\* a reader fed text lines one at a time
NextRead ==
  \/ status = "new" /\ \E f \in ReadFormatStrings : Construct(f)
  \/ status = "ready" /\ \E l \in Lines : Read(l)
  \/ status = "ready" /\ \E l \in Lines : NumberOfMatches(l)

SpecRead == Init /\ [][NextRead]_vars

(***************************************************************************)
(* What a token says as written: its repeat count (1 when none is          *)
(* written), its type code and the width written after the code (0 when    *)
(* none is written).                                                       *)
(***************************************************************************)
tokens == split(fmtArg)

WrittenRepeat(tok) ==
  LET n == DigitRun(tok, 1)
  IN  IF n = 0 THEN 1 ELSE DigitsToInt(SubSeq(tok, 1, n))

WrittenCode(tok) ==
  LET n == DigitRun(tok, 1)
  IN  IF n + 1 <= Len(tok) THEN UpperChar(tok[n + 1]) ELSE "?"

WrittenWidth(tok) ==
  LET n == DigitRun(tok, 1)
      w == DigitRun(tok, n + 2)
  IN  DigitsToInt(SubSeq(tok, n + 2, n + 1 + w))

\* the sum of the repeat counts of the tokens from i on that are not X
RECURSIVE NonSkipRepeatSum(_, _)
NonSkipRepeatSum(toks, i) ==
  IF i > Len(toks) THEN 0
  ELSE (IF WrittenCode(toks[i]) = "X" THEN 0 ELSE WrittenRepeat(toks[i]))
       + NonSkipRepeatSum(toks, i + 1)

\* the left-to-right walk of the tokens from i on with the cursor at c
RECURSIVE Walk(_, _, _)
Walk(toks, i, c) ==
  IF i > Len(toks) THEN <<>>
  ELSE LET r == WrittenRepeat(toks[i])
           w == WrittenWidth(toks[i])
           t == WrittenCode(toks[i])
       IN  IF t = "X" THEN Walk(toks, i + 1, c + r)
           ELSE [j \in 1..r |-> [start |-> c + (j - 1) * w,
                                 stop |-> c + j * w,
                                 typespecifier |-> t]]
                \o Walk(toks, i + 1, c + r * w)

\* for each entry, in order, the index of the token it comes from
RECURSIVE Owners(_, _)
Owners(toks, i) ==
  IF i > Len(toks) THEN <<>>
  ELSE (IF WrittenCode(toks[i]) = "X" THEN <<>>
        ELSE [j \in 1..WrittenRepeat(toks[i]) |-> i])
       \o Owners(toks, i + 1)

\* the token is, in its entirety, repeat? code (width ('.' decimals)?)?
FullGrammar(tok) ==
  LET n == DigitRun(tok, 1)
      w == DigitRun(tok, n + 2)
      m == DigitRun(tok, n + w + 3)
  IN  /\ n + 1 <= Len(tok)
      /\ UpperChar(tok[n + 1]) \in FormatCodes
      /\ \/ Len(tok) = n + 1
         \/ w > 0 /\ Len(tok) = n + 1 + w
         \/ w > 0 /\ m > 0 /\ tok[n + w + 2] = "." /\ Len(tok) = n + w + 2 + m

\* the token matches the pattern neither as written nor with "1" before it
Unmatched(tok) ==
  /\ FORTRAN_format_pattern_match(upper(tok)) = <<>>
  /\ FORTRAN_format_pattern_match(<<"1">> \o upper(tok)) = <<>>

\* a type code I, F, E or A with no width, with or without a repeat count
OmittedWidth(tok) ==
  LET n == DigitRun(tok, 1)
  IN  Len(tok) = n + 1 /\ UpperChar(tok[n + 1]) \in {"I", "F", "E", "A"}

ExampleFormat == <<"2", "I", "1", "0", ",", "2", "X", ",", "A", "8">>

(***************************************************************************)
(* C1: for every accepted format string, len(reader), the number of        *)
(* entries, is the sum of the repeat counts of the tokens whose type code  *)
(* is not X; a token without a repeat count counts 1.                      *)
(***************************************************************************)
C1_EntryCount ==
  status = "ready" =>
    /\ Len(entries) = NonSkipRepeatSum(tokens, 1)
    /\ op = "len" => result.value = NonSkipRepeatSum(tokens, 1)

\* len() of the reader of "2I10,2X,A8" is 3: 2 for 2I10, 0 for 2X, 1 for A8
C1_Witness ==
  /\ status = "ready"
  /\ op = "len"
  /\ fmtArg = ExampleFormat
  /\ result.value = 3

(***************************************************************************)
(* C2: the entries are those of the left-to-right walk with a cursor from  *)
(* 0: a non-X token of repeat r and width w gives r entries of width w,    *)
(* one after the other; an X token of repeat r gives no entry and moves    *)
(* the cursor by r whatever width is written.  "2I10,2X,A8" gives [0,10) I,*)
(* [10,20) I, [22,30) A.                                                   *)
(***************************************************************************)
C2_Layout ==
  status = "ready" =>
    /\ entries = Walk(tokens, 1, 0)
    /\ fmtArg = ExampleFormat =>
         entries = << [start |-> 0, stop |-> 10, typespecifier |-> "I"],
                      [start |-> 10, stop |-> 20, typespecifier |-> "I"],
                      [start |-> 22, stop |-> 30, typespecifier |-> "A"] >>

\* a reader whose format has an X token with a written width before a field:
\* "3X5,A8" puts the field at [3,11)
C2_Witness ==
  /\ status = "ready"
  /\ fmtArg = <<"3", "X", "5", ",", "A", "8">>
  /\ entries = << [start |-> 3, stop |-> 11, typespecifier |-> "A"] >>

(***************************************************************************)
(* C3: when the first token that does not parse matches the grammar        *)
(* neither as written nor with "1" before it, construction fails with the  *)
(* ValueError that names that token.                                       *)
(***************************************************************************)
C3_FormatError ==
  \A i \in 1..Len(tokens) :
    ( /\ status # "new"
      /\ Unmatched(tokens[i])
      /\ \A j \in 1..(i - 1) : parse_FORTRAN_format(tokens[j]).exc = "none" )
    => ( /\ status = "failed"
         /\ error = [exc |-> "ValueError", token |-> tokens[i]] )

(***************************************************************************)
(* C6, as amended: repr(reader) is the format string the reader was        *)
(* constructed from, character for character, between "FORTRANReader("     *)
(* and ")".                                                                *)
(***************************************************************************)
C6_ReprWrapsFormat ==
  (status = "ready" /\ op = "repr") =>
    result.value =
      <<"F", "O", "R", "T", "R", "A", "N", "R", "e", "a", "d", "e", "r", "(">>
      \o fmtArg \o <<")">>

\* C6, as stated: repr(reader) is a string equal to the format string the
\* reader was constructed from.
C6_ReprIsFormat ==
  (status = "ready" /\ op = "repr") => result.value = fmtArg

\* repr() of a reader of several tokens, one of them in lower case
C6_Witness ==
  /\ status = "ready"
  /\ op = "repr"
  /\ fmtArg = <<"i", "2", ",", "2", "X", ",", "A", "8">>

\* consecutive entries do not overlap, and the next starts where the
\* previous stops unless X tokens lie between the tokens they come from
EntriesInOrder ==
  LET own == Owners(tokens, 1)
  IN  \A i \in 1..(Len(entries) - 1) :
        /\ entries[i].stop <= entries[i + 1].start
        /\ (\A j \in (own[i] + 1)..(own[i + 1] - 1) :
              WrittenCode(tokens[j]) # "X")
           => entries[i].stop = entries[i + 1].start

(***************************************************************************)
(* C7, as amended: in every reader every entry has 0 <= start <= stop,     *)
(* with start < stop when the width written in its token is not 0, and     *)
(* consecutive entries are in order without overlap, the next starting     *)
(* where the previous stops unless X tokens lie between them.              *)
(***************************************************************************)
C7_Bounds ==
  status = "ready" =>
    LET own == Owners(tokens, 1)
    IN  /\ Len(own) = Len(entries)
        /\ \A i \in 1..Len(entries) :
             /\ 0 <= entries[i].start
             /\ entries[i].start <= entries[i].stop
             /\ WrittenWidth(tokens[own[i]]) > 0
                => entries[i].start < entries[i].stop
        /\ EntriesInOrder

\* C7, as stated: in every reader every entry has 0 <= start < stop, and
\* consecutive entries are in order without overlap, the next starting
\* where the previous stops unless X tokens lie between them.
C7_StrictBounds ==
  status = "ready" =>
    /\ \A i \in 1..Len(entries) :
         0 <= entries[i].start /\ entries[i].start < entries[i].stop
    /\ EntriesInOrder

\* a reader with an empty entry, two adjacent entries and a skipped gap
C7_Witness ==
  /\ status = "ready"
  /\ \E i \in 1..Len(entries) : entries[i].start = entries[i].stop
  /\ \E i \in 1..(Len(entries) - 1) :
       entries[i].stop < entries[i + 1].start
  /\ \E i \in 1..(Len(entries) - 1) :
       /\ entries[i].start < entries[i].stop
       /\ entries[i].stop = entries[i + 1].start

(***************************************************************************)
(* C8: a format string with a token I, F, E or A without a width, whose    *)
(* other tokens parse, is accepted: the width is 0 and the token's entries *)
(* are of zero length.                                                     *)
(***************************************************************************)
C8_OmittedWidthAccepted ==
  ( /\ status # "new"
    /\ \E i \in 1..Len(tokens) : OmittedWidth(tokens[i])
    /\ \A i \in 1..Len(tokens) :
         \/ OmittedWidth(tokens[i])
         \/ parse_FORTRAN_format(tokens[i]).exc = "none" )
  => ( /\ status = "ready"
       /\ entries = Walk(tokens, 1, 0) )

(***************************************************************************)
(* C10: construction succeeds only when every comma-separated token is,    *)
(* in its entirety, an instance of repeat? code (width ('.' decimals)?)?   *)
(***************************************************************************)
C10_WholeTokenGrammar ==
  status = "ready" => \A i \in 1..Len(tokens) : FullGrammar(tokens[i])

(***************************************************************************)
(* The entries whose slice of the line fails conversion.                   *)
(***************************************************************************)
FailingEntries(es, l) ==
  {i \in 1..Len(es) :
     convertor(es[i].typespecifier, Slice(l, es[i].start, es[i].stop)).exc
       # "none"}

(***************************************************************************)
(* C4: number_of_matches(line) returns, without raising, len(reader) minus *)
(* the number of entries whose slice fails conversion: len(reader) when    *)
(* every field is well formed, and len(reader) - 1 when exactly one        *)
(* numeric field is malformed, where read(line) raises the conversion      *)
(* error.                                                                  *)
(***************************************************************************)
C4_MatchCount ==
  (status = "ready" /\ op = "number_of_matches") =>
    LET bad == FailingEntries(entries, line)
    IN  /\ result.kind = "return"
        /\ result.value = Len(entries) - Cardinality(bad)
        /\ bad = {} => result.value = Len(entries)
        /\ (Cardinality(bad) = 1
            /\ \A i \in bad : entries[i].typespecifier \in {"I", "F", "E"})
           => /\ result.value = Len(entries) - 1
              /\ FORTRANReader_read(entries, line).kind = "raise"
              /\ FORTRANReader_read(entries, line).error.exc = "ValueError"

\* three fields, exactly one of them, a numeric one, malformed: 2 matches
C4_Witness ==
  /\ status = "ready"
  /\ op = "number_of_matches"
  /\ Len(entries) = 3
  /\ Cardinality(FailingEntries(entries, line)) = 1
  /\ \A i \in FailingEntries(entries, line) :
       entries[i].typespecifier \in {"I", "F", "E"}
  /\ result.value = 2

(***************************************************************************)
(* C5: read(line) converts the entries in layout order and fails fast.  If *)
(* entry k is the first whose slice fails conversion, exactly the entries  *)
(* up to k have been tried, the ValueError carries entry k (its bounds and *)
(* type code) and the raw slice, and no list is returned.  If none fails,  *)
(* the result is the list of the len(reader) converted values, in order.   *)
(***************************************************************************)
C5_FailFast ==
  (status = "ready" /\ op = "read") =>
    LET bad == FailingEntries(entries, line)
    IN  IF bad = {}
        THEN /\ result.kind = "return"
             /\ Len(result.value) = Len(entries)
             /\ attempted = Len(entries)
             /\ \A i \in 1..Len(entries) :
                  result.value[i] =
                    convertor(entries[i].typespecifier,
                              Slice(line, entries[i].start,
                                    entries[i].stop)).value
        ELSE LET k == CHOOSE x \in bad : \A y \in bad : x <= y
             IN  /\ result.kind = "raise"
                 /\ attempted = k
                 /\ result.value = <<>>
                 /\ result.error =
                      [exc   |-> "ValueError",
                       entry |-> entries[k],
                       raw   |-> Slice(line, entries[k].start,
                                       entries[k].stop)]

\* the second of three fields fails, on a slice that stripping would change
C5_Witness ==
  /\ status = "ready"
  /\ op = "read"
  /\ Len(entries) = 3
  /\ result.kind = "raise"
  /\ attempted = 2
  /\ result.error.entry = entries[2]
  /\ result.error.raw # strip(result.error.raw)

(***************************************************************************)
(* C9: read and number_of_matches leave the reader as it was constructed   *)
(* (fmt and every entry's start, stop and type code), so after any calls   *)
(* read(line) gives what it gives on the reader as constructed.            *)
(***************************************************************************)
C9_ReaderUnchanged ==
  status = "ready" =>
    LET made == FORTRANReader_init(fmtArg)
    IN  /\ fmt = made.fmt
        /\ entries = made.entries
        /\ op = "read" =>
             /\ result.kind = FORTRANReader_read(made.entries, line).kind
             /\ result.value = FORTRANReader_read(made.entries, line).value
             /\ result.error = FORTRANReader_read(made.entries, line).error

\* a read that returns its three values after an earlier read has raised
C9_Witness ==
  /\ status = "ready"
  /\ op = "read"
  /\ raised
  /\ result.kind = "return"
  /\ Len(result.value) = 3

====
